---- MODULE Spec2Model ----
(***************************************************************************)
(* Model of geod_canli_rapor.py: the date-window reconciliation core of    *)
(* the GEOD reward dashboard (window translation, 30-day chunking, the     *)
(* per-(device, chunk) collection loop, the strict payout filter and the   *)
(* per-device / per-day aggregation).                                      *)
(*                                                                         *)
(* Representation.                                                         *)
(*  - A calendar date is its day number since 1970-01-01.                  *)
(*  - A tz-aware datetime is its instant in UTC epoch seconds; its civil   *)
(*    date and time of day in TR (UTC+3) are DateTR / TimeTR.              *)
(*  - A float amount is a record [nan, v]: v is the amount as an exact     *)
(*    decimal in units of 1e-7 GEOD (one digit below the 6 decimals the    *)
(*    code rounds to), nan marks float("nan").  Infinite amounts and the   *)
(*    binary rounding error of float addition are not modelled.            *)
(*  - A serial number is a natural number; a DataFrame is the sequence of  *)
(*    its rows, each row a record keyed by the column names.               *)
(***************************************************************************)
EXTENDS Integers, Sequences, FiniteSets

VARIABLES
    pc,               \* position of the calculate handler: "idle", "stopped", "fetch", "done", "raised"; "chunk", "chunked" for chunk_ranges alone
    start_date,       \* date_input "Baslangic (performans)"
    end_date,         \* date_input "Bitis (performans)"
    miner_sns,        \* list of serial numbers handed to fetch_rewards_raw
    chunk_days,       \* chunk_ranges' chunk_days argument
    payout_start,     \* fetch_rewards_raw: payout_start
    payout_end_excl,  \* fetch_rewards_raw: payout_end_excl
    ranges,           \* fetch_rewards_raw: ranges
    step,             \* fetch_rewards_raw: step (number of provider calls started)
    rows,             \* fetch_rewards_raw: rows (collected RewardRow objects)
    raw,              \* main: raw (the frame fetch_rewards_raw returned)
    agg,              \* main: agg
    daily,            \* main: daily
    error,            \* the exception that left the handler, "none" if none did
    calls,            \* the params_payload of every provider call made, in order
    response_items,   \* the items of the response parsed on its own
    up,               \* file_uploader "Excel yukle": the file's SN column, if a file is there
    low_threshold,    \* number_input "Offline/Low esigi (GEOD)", in units of 1e-7
    session_state,    \* st.session_state: miner_df, last_result_df, last_raw_df, last_daily_df, wa_msg
    ncalc,            \* number of times "Odulleri Cek ve Hesapla" was pressed
    origin            \* history: the press each stored frame comes from, the dates it
                      \* was fetched for, the serial numbers added by "SN Ekle"

vars == <<pc, start_date, end_date, miner_sns, chunk_days, payout_start,
          payout_end_excl, ranges, step, rows, raw, agg, daily, error,
          calls, response_items, up, low_threshold, session_state, ncalc,
          origin>>

ui_vars == <<up, low_threshold, session_state, ncalc, origin>>

---------------------------------------------------------------------------
(* Bounds of the model *)

MaxDevices == 2      \* serial numbers are 1..MaxDevices
MaxItems == 1        \* items in one provider response
MaxRows == 2         \* RewardRow objects collected in one run
FirstDay == 1        \* earliest performance day chosen
LongSpan == 31       \* distance in days to the latest performance day chosen
MaxChunkDays == 3    \* largest chunk_days tried on chunk_ranges alone
MaxHalfDays == 9     \* longest window, in half days, tried on chunk_ranges alone
MaxParseItems == 2   \* items in the response parsed on its own

---------------------------------------------------------------------------
(* Program constants *)

DAY == 86400                 \* dt.timedelta(days=1), in seconds
TR_TZ == 10800               \* dt.timezone(dt.timedelta(hours=3))
PAYOUT_CUTOFF_TR == 30600    \* dt.time(hour=8, minute=30)
CHUNK_DAYS == 30             \* chunk_days=30 in fetch_rewards_raw

Min(a, b) == IF a < b THEN a ELSE b

---------------------------------------------------------------------------
(* Datetimes *)

\* dt.datetime.combine(date, time, tzinfo=TR_TZ)
Combine(date, time) == date * DAY + time - TR_TZ

\* d.astimezone(TR_TZ).date() and .time()
DateTR(d) == (d + TR_TZ) \div DAY
TimeTR(d) == (d + TR_TZ) % DAY

\* An epoch time in milliseconds exceeds the 32-bit integers of the model
\* checker: it is kept as [hi, lo] standing for hi * 10^6 + lo, lo < 10^6.
dt_to_utc_ms_seconds(d) == [hi |-> d \div 1000000, lo |-> d % 1000000]

\* int(d.astimezone(utc).timestamp() * 1000)
dt_to_utc_ms(d) == [hi |-> d \div 1000, lo |-> (d % 1000) * 1000]

performance_window_to_payout_filter_no_next_day(sd, ed) ==
    <<Combine(sd, PAYOUT_CUTOFF_TR), Combine(ed, PAYOUT_CUTOFF_TR)>>

performance_window_to_payout_filter(sd, ed) ==
    <<Combine(sd, PAYOUT_CUTOFF_TR), Combine(ed + 1, PAYOUT_CUTOFF_TR)>>

RECURSIVE chunk_ranges_no_clamp(_, _, _)
chunk_ranges_no_clamp(cur, end_dt_excl, days) ==
    IF cur < end_dt_excl
    THEN LET nxt == cur + days * DAY
         IN  <<<<cur, nxt>>>> \o chunk_ranges_no_clamp(nxt, end_dt_excl, days)
    ELSE <<>>

RECURSIVE chunk_ranges(_, _, _)
chunk_ranges(cur, end_dt_excl, days) ==
    IF cur < end_dt_excl
    THEN LET nxt == Min(cur + days * DAY, end_dt_excl)
         IN  <<<<cur, nxt>>>> \o chunk_ranges(nxt, end_dt_excl, days)
    ELSE <<>>

---------------------------------------------------------------------------
(* Provider response and its parsing (geodnet_call_rewards_timeline) *)

\* A JSON value of an item: absent/None, a string no number parses from,
\* a number, or (amounts only) a value float() turns into NaN.
None == [k |-> "none", v |-> 0]
Junk == [k |-> "junk", v |-> 0]
NumV(n) == [k |-> "num", v |-> n]
NanV == [k |-> "nan", v |-> 0]

\* A Python float
Float(n) == [nan |-> FALSE, v |-> n]
NaN == [nan |-> TRUE, v |-> 0]

\* it.get("time") or it.get("timestamp") or ...: a falsy value (None, 0)
\* of the one key present leaves None
OrChain(x) == IF x.k = "none" \/ (x.k = "num" /\ x.v = 0) THEN None ELSE x

\* one iteration of "for it in items": the rows appended for item it
ParseItem(miner_sn, it) ==
    LET t == OrChain(it.time)
        geod == OrChain(it.reward)
    IN  IF t.k = "none" \/ geod.k = "none" THEN <<>>
        ELSE IF t.k # "num" THEN <<>>                  \* int(t) raises
        ELSE IF geod.k = "junk" THEN <<>>              \* float(geod) raises
        ELSE <<[miner_sn |-> miner_sn,
                payout_ts |-> t.v,                     \* t*1000/1000.0 s, shown in TR_TZ
                geod |-> IF geod.k = "nan" THEN NaN ELSE Float(geod.v)]>>

\* the list "out" built from the items of a status-200, well-shaped response
RECURSIVE geodnet_call_rewards_timeline(_, _)
geodnet_call_rewards_timeline(miner_sn, items) ==
    IF items = <<>> THEN <<>>
    ELSE ParseItem(miner_sn, Head(items))
            \o geodnet_call_rewards_timeline(miner_sn, Tail(items))

\* the ways the call raises instead of returning
FailureKinds == {"http_status", "api_code", "bad_shape", "network"}

ExceptionOf(kind) == IF kind = "network" THEN "RequestException" ELSE "RuntimeError"

---------------------------------------------------------------------------
(* fetch_rewards_raw: strict filter and frame construction *)

InWindowInclusiveEnd(r, ps, pe) == r.payout_ts >= ps /\ r.payout_ts <= pe

InWindow(r, ps, pe) == r.payout_ts >= ps /\ r.payout_ts < pe

StrictFilterKeepAll(rs, ps, pe) == rs

StrictFilter(rs, ps, pe) == SelectSeq(rs, LAMBDA r : InWindow(r, ps, pe))

ToFrame(rs) ==
    [i \in 1..Len(rs) |-> [Miner_SN |-> rs[i].miner_sn,
                           Payout_TR |-> rs[i].payout_ts,
                           GEOD |-> rs[i].geod]]

---------------------------------------------------------------------------
(* pandas helpers *)

RECURSIVE SortedSeq(_)
SortedSeq(S) ==
    IF S = {} THEN <<>>
    ELSE LET m == CHOOSE x \in S : \A y \in S : x <= y
         IN  <<m>> \o SortedSeq(S \ {m})

\* Series.sum(): NaN entries are skipped
RECURSIVE NanSum(_)
NanSum(s) ==
    IF s = <<>> THEN 0
    ELSE (IF Head(s).GEOD.nan THEN 0 ELSE Head(s).GEOD.v) + NanSum(Tail(s))

\* Series.count(): NaN entries are not counted
NanCount(s) == Len(SelectSeq(s, LAMBDA r : ~r.GEOD.nan))

\* Series.min() and Series.max() of the Payout_TR column
MinPayout(s) == CHOOSE x \in {s[i].Payout_TR : i \in 1..Len(s)} :
                    \A j \in 1..Len(s) : x <= s[j].Payout_TR
MaxPayout(s) == CHOOSE x \in {s[i].Payout_TR : i \in 1..Len(s)} :
                    \A j \in 1..Len(s) : x >= s[j].Payout_TR

Round6Truncate(x) == (x \div 10) * 10

\* .round(6) on an amount in units of 1e-7: nearest multiple of 1e-6, ties to even
Round6(x) ==
    LET q == x \div 10
        r == x % 10
    IN  IF r < 5 THEN q * 10
        ELSE IF r > 5 THEN (q + 1) * 10
        ELSE IF q % 2 = 0 THEN q * 10 ELSE (q + 1) * 10

---------------------------------------------------------------------------
(* Aggregation *)

aggregates_from_raw(frame) ==
    IF frame = <<>> THEN <<>> ELSE
    LET keys == SortedSeq({frame[i].Miner_SN : i \in 1..Len(frame)})
    IN  [k \in 1..Len(keys) |->
            LET g == SelectSeq(frame, LAMBDA r : r.Miner_SN = keys[k])
            IN  [Miner_SN |-> keys[k],
                 Toplam_GEOD |-> Round6(NanSum(g)),
                 Odul_Sayisi |-> NanCount(g),
                 Ilk_Odul_TR |-> MinPayout(g),
                 Son_Odul_TR |-> MaxPayout(g)]]

PerformanceDayOf(r) == DateTR(r.Payout_TR) - 1

daily_trend_from_raw(frame) ==
    IF frame = <<>> THEN <<>> ELSE
    LET keys == SortedSeq({PerformanceDayOf(frame[i]) : i \in 1..Len(frame)})
    IN  [k \in 1..Len(keys) |->
            LET g == SelectSeq(frame, LAMBDA r : PerformanceDayOf(r) = keys[k])
            IN  [Performance_Day |-> keys[k],
                 GEOD |-> Round6(NanSum(g))]]

---------------------------------------------------------------------------
(* Inputs *)

SeqsUpTo(S, n) == UNION {[1..k -> S] : k \in 0..n}

\* the two date inputs: windows of 1, 2, 30 and 32 days, and a start date
\* one and two days after the end date
StartDays == {FirstDay, FirstDay + 2}
EndDays == {FirstDay, FirstDay + 1, FirstDay + LongSpan}

\* miner_df["Miner_SN"]: the device list holds no serial number twice
MinerLists == {q \in SeqsUpTo(1..MaxDevices, MaxDevices) :
                  \A i, j \in 1..Len(q) : i # j => q[i] # q[j]}

\* items the provider may answer any call with: a tiny amount paid on both
\* sides of both ends of the window; amounts negative, on a rounding tie
\* and NaN paid inside it; items whose amount is absent, unparsable or
\* zero; items whose time is absent, unparsable or zero
ItemTimes(ps, pe) == {NumV(x) : x \in {ps - 60, ps, pe - 60, pe}}
ItemRewards == {NanV, NumV(-7), NumV(15)}
Items(ps, pe) ==
    [time : ItemTimes(ps, pe), reward : {NumV(4)}]
        \cup [time : {NumV(ps)}, reward : ItemRewards \cup {None, Junk, NumV(0)}]
        \cup [time : {None, Junk, NumV(0)}, reward : {NumV(4)}]
Responses(ps, pe) == SeqsUpTo(Items(ps, pe), MaxItems)

---------------------------------------------------------------------------
(* Session state and the result table of main *)

\* an entry of st.session_state, or the uploader's file, that is not there / is there
Absent == [has |-> FALSE, v |-> <<>>]
Present(x) == [has |-> TRUE, v |-> x]

\* value=180.0 of the threshold input, in units of 1e-7 GEOD
LOW_THRESHOLD_DEFAULT == 1800000000

\* miner_df.merge(agg, how="left", on="Miner_SN"): every row of the device
\* list once per aggregate row of its serial number, once with NaN if none
RECURSIVE MergeLeft(_, _)
MergeLeft(sns, a) ==
    IF sns = <<>> THEN <<>>
    ELSE LET m == SelectSeq(a, LAMBDA r : r.Miner_SN = Head(sns))
             matched == [i \in 1..Len(m) |->
                            [Miner_SN |-> Head(sns),
                             Toplam_GEOD |-> Float(m[i].Toplam_GEOD),
                             Odul_Sayisi |-> Float(m[i].Odul_Sayisi)]]
             unmatched == <<[Miner_SN |-> Head(sns),
                             Toplam_GEOD |-> NaN,
                             Odul_Sayisi |-> NaN]>>
         IN  (IF m = <<>> THEN unmatched ELSE matched) \o MergeLeft(Tail(sns), a)

\* Series.fillna(d)
FillNa(x, d) == IF x.nan THEN d ELSE x.v

IsOfflineAtOrBelow(toplam, sayi, thr) == (toplam <= thr) \/ (sayi = 0)

\* (out["Toplam_GEOD"] < thr) | (out["Odul_Sayisi"] == 0)
IsOffline(toplam, sayi, thr) == (toplam < thr) \/ (sayi = 0)

\* main's "out": the merge, the two fillna and the Offline column
ResultTable(sns, a, thr) ==
    LET m == MergeLeft(sns, a)
    IN  [i \in 1..Len(m) |->
            LET toplam == FillNa(m[i].Toplam_GEOD, 0)
                sayi == FillNa(m[i].Odul_Sayisi, 0)
            IN  [Miner_SN |-> m[i].Miner_SN,
                 Toplam_GEOD |-> toplam,
                 Odul_Sayisi |-> sayi,
                 Offline |-> IsOffline(toplam, sayi, thr)]]

StoreResultOnly(s, out, r, d) ==
    [s EXCEPT !.last_result_df = Present(out)]

\* the three assignments that end the calculate handler
Store(s, out, r, d) ==
    [s EXCEPT !.last_result_df = Present(out),
              !.last_raw_df = Present(r),
              !.last_daily_df = Present(d)]

---------------------------------------------------------------------------
(* The calculate handler: main -> fetch_rewards_raw -> aggregation *)

Init ==
    /\ pc = "idle"
    /\ start_date = FirstDay
    /\ end_date = FirstDay
    /\ miner_sns = <<>>
    /\ chunk_days = CHUNK_DAYS
    /\ payout_start = 0
    /\ payout_end_excl = 0
    /\ ranges = <<>>
    /\ step = 0
    /\ rows = <<>>
    /\ raw = <<>>
    /\ agg = <<>>
    /\ daily = <<>>
    /\ error = "none"
    /\ calls = <<>>
    /\ response_items = <<>>
    /\ up = Absent
    /\ low_threshold = LOW_THRESHOLD_DEFAULT
    /\ session_state = [miner_df |-> <<>>, last_result_df |-> Absent,
                        last_raw_df |-> Absent, last_daily_df |-> Absent,
                        wa_msg |-> Absent]
    /\ ncalc = 0
    /\ origin = [result |-> 0, raw |-> 0, daily |-> 0, range |-> <<>>, manual |-> {}]

\* the tail of fetch_rewards_raw (strict filter, frame) and main's two
\* aggregations of the returned frame
Return(rs, ps, pe) ==
    /\ raw' = ToFrame(StrictFilter(rs, ps, pe))
    /\ agg' = aggregates_from_raw(raw')
    /\ daily' = daily_trend_from_raw(raw')
    /\ session_state' = Store(session_state,
                              ResultTable(miner_sns', agg', low_threshold),
                              raw', daily')
    /\ origin' = [origin EXCEPT !.result = ncalc', !.raw = ncalc', !.daily = ncalc',
                                !.range = <<start_date', end_date'>>]
    /\ pc' = "done"

\* "Odulleri Cek ve Hesapla" pressed: main stops on an empty device list,
\* otherwise fetch_rewards_raw translates the window and chunks it; with
\* no chunk the loops do nothing and the call returns at once
Calc ==
    /\ pc = "idle"
    /\ \E sd \in StartDays, ed \in EndDays, sns \in MinerLists :
         LET w == performance_window_to_payout_filter(sd, ed)
             rg == chunk_ranges(w[1], w[2], CHUNK_DAYS)
         IN  /\ start_date' = sd
             /\ end_date' = ed
             /\ miner_sns' = sns
             /\ ncalc' = ncalc + 1
             /\ IF sns = <<>>
                THEN /\ pc' = "stopped"
                     /\ UNCHANGED <<payout_start, payout_end_excl, ranges, raw, agg,
                                    daily, session_state, origin>>
                ELSE /\ payout_start' = w[1]
                     /\ payout_end_excl' = w[2]
                     /\ ranges' = rg
                     /\ IF Len(rg) = 0
                        THEN Return(<<>>, w[1], w[2])
                        ELSE /\ pc' = "fetch"
                             /\ UNCHANGED <<raw, agg, daily, session_state, origin>>
    /\ UNCHANGED <<chunk_days, step, rows, error, calls, response_items, up,
                   low_threshold>>

\* the serial number and chunk of call number n (0-based) of the nested loops
CallSnChunkMajor(n) == miner_sns[(n % Len(miner_sns)) + 1]
CallSn(n) == miner_sns[(n \div Len(ranges)) + 1]
CallRange(n) == ranges[(n % Len(ranges)) + 1]
TotalCalls == Len(miner_sns) * Len(ranges)

\* params_payload of call number n
Payload(n) == [minerSn |-> CallSn(n),
               startTime |-> dt_to_utc_ms(CallRange(n)[1]),
               endTime |-> dt_to_utc_ms(CallRange(n)[2])]

\* one iteration of the loops whose call returns: rows.extend(part); after
\* the last iteration the function filters and returns
FetchStep(responses) ==
    /\ pc = "fetch"
    /\ \E items \in responses :
         LET part == geodnet_call_rewards_timeline(CallSn(step), items)
         IN  /\ Len(rows) + Len(part) <= MaxRows
             /\ rows' = rows \o part
    /\ step' = step + 1
    /\ calls' = Append(calls, Payload(step))
    /\ UNCHANGED <<start_date, end_date, miner_sns, chunk_days, payout_start,
                   payout_end_excl, ranges, error, response_items, up,
                   low_threshold, ncalc>>
    /\ IF step' = TotalCalls
       THEN Return(rows', payout_start, payout_end_excl)
       ELSE /\ pc' = "fetch"
            /\ UNCHANGED <<raw, agg, daily, session_state, origin>>

FetchOk == FetchStep(Responses(payout_start, payout_end_excl))

\* one iteration whose call raises: nothing catches the exception, it
\* leaves fetch_rewards_raw and main
FetchFail ==
    /\ pc = "fetch"
    /\ \E kind \in FailureKinds : error' = ExceptionOf(kind)
    /\ step' = step + 1
    /\ calls' = Append(calls, Payload(step))
    /\ pc' = "raised"
    /\ UNCHANGED <<start_date, end_date, miner_sns, chunk_days, payout_start,
                   payout_end_excl, ranges, rows, raw, agg, daily, response_items>>
    /\ UNCHANGED ui_vars

Next == Calc \/ FetchOk \/ FetchFail

Spec == Init /\ [][Next]_vars

---------------------------------------------------------------------------
(* fetch_rewards_raw and the two aggregations called directly, without
   main's check of the device list *)

CallFetch ==
    /\ pc = "idle"
    /\ \E sd \in StartDays, ed \in EndDays, sns \in MinerLists :
         LET w == performance_window_to_payout_filter(sd, ed)
             rg == chunk_ranges(w[1], w[2], CHUNK_DAYS)
         IN  /\ start_date' = sd
             /\ end_date' = ed
             /\ miner_sns' = sns
             /\ payout_start' = w[1]
             /\ payout_end_excl' = w[2]
             /\ ranges' = rg
             /\ ncalc' = ncalc + 1
             /\ IF Len(sns) * Len(rg) = 0
                THEN Return(<<>>, w[1], w[2])
                ELSE /\ pc' = "fetch"
                     /\ UNCHANGED <<raw, agg, daily, session_state, origin>>
    /\ UNCHANGED <<chunk_days, step, rows, error, calls, response_items, up,
                   low_threshold>>

NextFetch == CallFetch \/ FetchOk \/ FetchFail

SpecFetch == Init /\ [][NextFetch]_vars

---------------------------------------------------------------------------
(* chunk_ranges on its own, for every window and chunk length *)

ChunkStarts == {Combine(FirstDay, 0), Combine(FirstDay, PAYOUT_CUTOFF_TR)}

InitChunk ==
    /\ pc = "chunk"
    /\ payout_start \in ChunkStarts
    /\ payout_end_excl \in {payout_start + h * (DAY \div 2) : h \in 1..MaxHalfDays}
    /\ chunk_days \in 1..MaxChunkDays
    /\ start_date = FirstDay
    /\ end_date = FirstDay
    /\ miner_sns = <<>>
    /\ ranges = <<>>
    /\ step = 0
    /\ rows = <<>>
    /\ raw = <<>>
    /\ agg = <<>>
    /\ daily = <<>>
    /\ error = "none"
    /\ calls = <<>>
    /\ response_items = <<>>
    /\ up = Absent
    /\ low_threshold = LOW_THRESHOLD_DEFAULT
    /\ session_state = [miner_df |-> <<>>, last_result_df |-> Absent,
                        last_raw_df |-> Absent, last_daily_df |-> Absent,
                        wa_msg |-> Absent]
    /\ ncalc = 0
    /\ origin = [result |-> 0, raw |-> 0, daily |-> 0, range |-> <<>>, manual |-> {}]

ChunkCall ==
    /\ pc = "chunk"
    /\ ranges' = chunk_ranges(payout_start, payout_end_excl, chunk_days)
    /\ pc' = "chunked"
    /\ UNCHANGED <<start_date, end_date, miner_sns, chunk_days, payout_start,
                   payout_end_excl, step, rows, raw, agg, daily, error, calls,
                   response_items, up, low_threshold, session_state, ncalc, origin>>

NextChunk == ChunkCall

SpecChunk == InitChunk /\ [][NextChunk]_vars

---------------------------------------------------------------------------
(* The item loop of geodnet_call_rewards_timeline on its own *)

InitParse ==
    /\ pc = "parse"
    /\ payout_start = Combine(FirstDay, PAYOUT_CUTOFF_TR)
    /\ payout_end_excl = Combine(FirstDay + 1, PAYOUT_CUTOFF_TR)
    /\ response_items \in SeqsUpTo(Items(payout_start, payout_end_excl), MaxParseItems)
    /\ miner_sns \in {<<sn>> : sn \in 1..MaxDevices}
    /\ start_date = FirstDay
    /\ end_date = FirstDay
    /\ chunk_days = CHUNK_DAYS
    /\ ranges = <<>>
    /\ step = 0
    /\ rows = <<>>
    /\ raw = <<>>
    /\ agg = <<>>
    /\ daily = <<>>
    /\ error = "none"
    /\ calls = <<>>
    /\ up = Absent
    /\ low_threshold = LOW_THRESHOLD_DEFAULT
    /\ session_state = [miner_df |-> <<>>, last_result_df |-> Absent,
                        last_raw_df |-> Absent, last_daily_df |-> Absent,
                        wa_msg |-> Absent]
    /\ ncalc = 0
    /\ origin = [result |-> 0, raw |-> 0, daily |-> 0, range |-> <<>>, manual |-> {}]

\* a status-200, well-shaped response: the loop over its items returns "out"
ParseCall ==
    /\ pc = "parse"
    /\ rows' = geodnet_call_rewards_timeline(miner_sns[1], response_items)
    /\ pc' = "parsed"
    /\ UNCHANGED <<start_date, end_date, miner_sns, chunk_days, payout_start,
                   payout_end_excl, ranges, step, raw, agg, daily, error, calls,
                   response_items, up, low_threshold, session_state, ncalc, origin>>

NextParse == ParseCall

SpecParse == InitParse /\ [][NextParse]_vars

---------------------------------------------------------------------------
(* The script of main, run again from the top on every interaction *)

MaxCalcs == 2

\* no run of the script is under way
AtRest == pc \in {"idle", "stopped", "done", "raised"}

\* an empty cell of the SN column
Blank == 0

\* drop_duplicates(subset=["Miner_SN"], keep="first")
RECURSIVE DropDuplicates(_)
DropDuplicates(q) ==
    IF q = <<>> THEN <<>>
    ELSE LET front == DropDuplicates(SubSeq(q, 1, Len(q) - 1))
             last == q[Len(q)]
         IN  IF \E i \in 1..Len(front) : front[i] = last
             THEN front ELSE Append(front, last)

\* the rows of the file whose SN is not empty, the first of each SN
ExcelDevices(column) == DropDuplicates(SelectSeq(column, LAMBDA sn : sn # Blank))

\* the top of every run: with a file in the uploader (its SN column mapped)
\* the device list of the session becomes the file's devices
LoadExcel(s, file) ==
    IF file.has THEN [s EXCEPT !.miner_df = ExcelDevices(file.v)] ELSE s

\* inputs of the interactions: dates, files, typed serial numbers,
\* thresholds, the sidebar's credentials, the provider's answers
UIStartDays == {FirstDay}
UIEndDays == {FirstDay, FirstDay + 1}
UIFiles == {<<1, Blank, 1>>}
UISerials == {Blank, 2}
Thresholds == {10}
Credentials == {"ok", "missing", "bad_key"}
UIItems(ps, pe) == [time : {NumV(ps)}, reward : {NumV(10)}]
UIResponses(ps, pe) == SeqsUpTo(UIItems(ps, pe), 1)

fetch_vars == <<miner_sns, chunk_days, payout_start, payout_end_excl, ranges,
                step, rows, raw, agg, daily, error, calls, response_items>>

\* a date input is changed (to a range that is not reversed)
ChangeDates ==
    /\ AtRest
    /\ \E sd \in UIStartDays, ed \in UIEndDays :
         /\ sd <= ed
         /\ <<sd, ed>> # <<start_date, end_date>>
         /\ start_date' = sd
         /\ end_date' = ed
    /\ session_state' = LoadExcel(session_state, up)
    /\ pc' = "idle"
    /\ UNCHANGED <<up, low_threshold, ncalc, origin>>
    /\ UNCHANGED fetch_vars

\* a file is put into the uploader
UploadFile ==
    /\ AtRest
    /\ \E f \in UIFiles : up' = Present(f)
    /\ session_state' = LoadExcel(session_state, up')
    /\ pc' = "idle"
    /\ UNCHANGED <<start_date, end_date, low_threshold, ncalc, origin>>
    /\ UNCHANGED fetch_vars

\* the file is taken out of the uploader
RemoveFile ==
    /\ AtRest
    /\ up.has
    /\ up' = Absent
    /\ pc' = "idle"
    /\ UNCHANGED <<start_date, end_date, low_threshold, session_state, ncalc, origin>>
    /\ UNCHANGED fetch_vars

\* "SN Ekle" pressed with sn typed into the SN field
AddSN ==
    /\ AtRest
    /\ \E sn \in UISerials :
         LET s == LoadExcel(session_state, up)
             listed == \E i \in 1..Len(s.miner_df) : s.miner_df[i] = sn
         IN  IF sn = Blank \/ listed
             THEN /\ session_state' = s
                  /\ origin' = origin
             ELSE /\ session_state' = [s EXCEPT !.miner_df = Append(@, sn)]
                  /\ origin' = [origin EXCEPT !.manual = @ \cup {sn}]
    /\ pc' = "idle"
    /\ UNCHANGED <<start_date, end_date, up, low_threshold, ncalc>>
    /\ UNCHANGED fetch_vars

\* the threshold input is changed
ChangeThreshold ==
    /\ AtRest
    /\ \E t \in Thresholds : t # low_threshold /\ low_threshold' = t
    /\ session_state' = LoadExcel(session_state, up)
    /\ pc' = "idle"
    /\ UNCHANGED <<start_date, end_date, up, ncalc, origin>>
    /\ UNCHANGED fetch_vars

\* "Odulleri Cek ve Hesapla" pressed: the handler stops on missing
\* credentials, on a bad AES key/IV and on an empty device list, otherwise
\* fetch_rewards_raw starts on the session's device list and the dates
\* of the two inputs
UICalc ==
    /\ AtRest
    /\ ncalc < MaxCalcs
    /\ ncalc' = ncalc + 1
    /\ session_state' = LoadExcel(session_state, up)
    /\ \E cred \in Credentials :
         LET sns == session_state'.miner_df
             w == performance_window_to_payout_filter(start_date, end_date)
         IN  IF cred # "ok" \/ sns = <<>>
             THEN /\ pc' = "stopped"
                  /\ UNCHANGED <<miner_sns, payout_start, payout_end_excl, ranges>>
             ELSE /\ pc' = "fetch"
                  /\ miner_sns' = sns
                  /\ payout_start' = w[1]
                  /\ payout_end_excl' = w[2]
                  /\ ranges' = chunk_ranges(w[1], w[2], CHUNK_DAYS)
    /\ step' = 0
    /\ rows' = <<>>
    /\ raw' = <<>>
    /\ agg' = <<>>
    /\ daily' = <<>>
    /\ error' = "none"
    /\ calls' = <<>>
    /\ UNCHANGED <<start_date, end_date, chunk_days, response_items, up,
                   low_threshold, origin>>

UIFetchOk == FetchStep(UIResponses(payout_start, payout_end_excl))

\* "WhatsApp mesaji hazirla" pressed under a shown result
PrepareWhatsApp ==
    /\ AtRest
    /\ session_state.last_result_df.has
    /\ session_state' = [LoadExcel(session_state, up) EXCEPT
                             !.wa_msg = Present(<<start_date, end_date>>)]
    /\ pc' = "idle"
    /\ UNCHANGED <<start_date, end_date, up, low_threshold, ncalc, origin>>
    /\ UNCHANGED fetch_vars

NextUI ==
    \/ ChangeDates
    \/ UploadFile
    \/ RemoveFile
    \/ AddSN
    \/ ChangeThreshold
    \/ UICalc
    \/ UIFetchOk
    \/ FetchFail
    \/ PrepareWhatsApp

SpecUI == Init /\ [][NextUI]_vars

\* the date range the export section writes into the PDF's meta table
PdfMeta == <<start_date, end_date>>

---------------------------------------------------------------------------
(* Reference quantities used by the properties *)

Abs(x) == IF x < 0 THEN -x ELSE x

Called == pc \in {"fetch", "done", "raised"}

\* exact sum of the non-NaN amounts of the first n collected rows that
\* belong to a device of D and lie inside the payout window
RECURSIVE ExactAmount(_, _)
ExactAmount(n, D) ==
    IF n = 0 THEN 0
    ELSE ExactAmount(n - 1, D)
         + (IF /\ rows[n].miner_sn \in D
               /\ rows[n].payout_ts >= payout_start
               /\ rows[n].payout_ts < payout_end_excl
               /\ ~rows[n].geod.nan
            THEN rows[n].geod.v ELSE 0)

RECURSIVE SumToplam(_)
SumToplam(n) == IF n = 0 THEN 0 ELSE SumToplam(n - 1) + agg[n].Toplam_GEOD

RawOf(sn) == {i \in 1..Len(raw) : raw[i].Miner_SN = sn}

\* every collected amount is a number and not negative
ValidAmounts == \A i \in 1..Len(rows) : ~rows[i].geod.nan /\ rows[i].geod.v >= 0

\* the columns of the frame fetch_rewards_raw returns
ReturnedColumns == {"Miner_SN", "Payout_TR", "GEOD"}

---------------------------------------------------------------------------
(* Properties *)

\* C1: for start_day <= end_day the payout window starts on start_day at
\* the 08:30 TR cutoff and ends on the day after end_day at the cutoff, so
\* it is exactly (end_day - start_day + 1) days long, 24 hours for one day.
C1_WindowTranslation ==
    (Called /\ start_date <= end_date) =>
        /\ DateTR(payout_start) = start_date
        /\ TimeTR(payout_start) = 8 * 3600 + 30 * 60
        /\ DateTR(payout_end_excl) = end_date + 1
        /\ TimeTR(payout_end_excl) = 8 * 3600 + 30 * 60
        /\ payout_end_excl - payout_start = (end_date - start_date + 1) * 24 * 3600
        /\ (start_date = end_date => payout_end_excl - payout_start = 24 * 3600)

C1_Witness ==
    /\ pc = "done"
    /\ start_date = end_date
    /\ payout_end_excl - payout_start = 24 * 3600

\* C2: the returned frame holds exactly the collected records with
\* payout_start <= payout time < payout_end_excl, in collected order,
\* whichever chunk's call delivered them.
C2_StrictFilter ==
    pc = "done" =>
        LET keep == {i \in 1..Len(rows) :
                        /\ ~(rows[i].payout_ts < payout_start)
                        /\ ~(rows[i].payout_ts >= payout_end_excl)}
        IN  /\ Len(raw) = Cardinality(keep)
            /\ \E f \in [1..Len(raw) -> 1..Len(rows)] :
                  /\ \A a, b \in 1..Len(raw) : a < b => f[a] < f[b]
                  /\ \A a \in 1..Len(raw) :
                        /\ f[a] \in keep
                        /\ raw[a].Miner_SN = rows[f[a]].miner_sn
                        /\ raw[a].Payout_TR = rows[f[a]].payout_ts
                        /\ raw[a].GEOD = rows[f[a]].geod

C2_Witness ==
    /\ pc = "done"
    /\ Len(ranges) = 2
    /\ Len(miner_sns) = 1
    /\ Len(rows) = 2
    /\ rows[1].payout_ts = payout_end_excl
    /\ rows[2].payout_ts = payout_start
    /\ Len(raw) = 1

\* C3: for from < to and chunk_days >= 1 the chunks are non-empty, at most
\* chunk_days long, start at from, follow one another without gap or
\* overlap and end at to.
C3_ChunkPartition ==
    pc = "chunked" =>
        /\ Len(ranges) >= 1
        /\ ranges[1][1] = payout_start
        /\ ranges[Len(ranges)][2] = payout_end_excl
        /\ \A i \in 1..Len(ranges) :
              /\ ranges[i][1] < ranges[i][2]
              /\ ranges[i][2] - ranges[i][1] <= chunk_days * 24 * 3600
        /\ \A i \in 1..(Len(ranges) - 1) : ranges[i + 1][1] = ranges[i][2]

C3_Witness ==
    /\ pc = "chunked"
    /\ Len(ranges) >= 3
    /\ ranges[Len(ranges)][2] - ranges[Len(ranges)][1] < chunk_days * 24 * 3600

\* C4: a failed fetch for one (device, chunk) pair does not abort the
\* collection: no exception leaves the handler because of it.
C4_FailedFetchDoesNotAbort ==
    ~(pc = "raised" /\ error \in {"RuntimeError", "RequestException"})

\* C5: after a collection in which fetches failed the caller still gets
\* the aggregates, together with a count of the failed chunks.
C5_FailedChunksReported ==
    error # "none" => (pc = "done" /\ "Failed_Chunks" \in ReturnedColumns)

\* C6: a performance window with start_day > end_day fails with
\* InvalidRangeError: no window, no fetch, no aggregate.
C6_InvalidRangeRaises ==
    (pc \notin {"idle", "stopped"} /\ start_date > end_date) =>
        (pc = "raised" /\ error = "InvalidRangeError")

\* C7: every row of the daily trend of a window [start_day, end_day] has
\* start_day <= Performance_Day <= end_day (stated for runs in which every
\* collected amount is a non-negative number).
C7_DailyWithinWindow ==
    (pc = "done" /\ start_date <= end_date /\ ValidAmounts) =>
        \A k \in 1..Len(daily) :
            /\ daily[k].Performance_Day >= start_date
            /\ daily[k].Performance_Day <= end_date

C9_OneRowPerDevice ==
    pc = "done" =>
        /\ {agg[k].Miner_SN : k \in 1..Len(agg)} = {raw[i].Miner_SN : i \in 1..Len(raw)}
        /\ \A k, l \in 1..Len(agg) : k # l => agg[k].Miner_SN # agg[l].Miner_SN
        /\ \A k \in 1..Len(agg) :
              LET mine == RawOf(agg[k].Miner_SN)
              IN  /\ agg[k].Odul_Sayisi = Cardinality(mine)
                  /\ \E i \in mine : agg[k].Ilk_Odul_TR = raw[i].Payout_TR
                  /\ \E i \in mine : agg[k].Son_Odul_TR = raw[i].Payout_TR
                  /\ \A i \in mine : /\ agg[k].Ilk_Odul_TR <= raw[i].Payout_TR
                                     /\ agg[k].Son_Odul_TR >= raw[i].Payout_TR

\* C10: every RewardRow built from a provider response has amount >= 0
\* (a comparison NaN does not pass either): no negative amount is collected.
C10_AmountsNonNegative ==
    \A i \in 1..Len(rows) :
        LET amount == rows[i].geod
        IN  IF amount.nan THEN FALSE ELSE amount.v >= 0

\* an item with a parsable payout time and a parsable amount, zero included
Parsable(it) == it.time.k = "num" /\ it.reward.k \in {"num", "nan"}

\* C11: of a parsed response, every item with a parsable payout time and a
\* parsable amount (zero included) yields exactly one RewardRow, in item
\* order, and every other item is dropped (stated for responses in which
\* no item is paid at epoch time 0).
C11_OneRowPerParsableItem ==
    (pc = "parsed" /\ \A i \in 1..Len(response_items) : response_items[i].time # NumV(0)) =>
        LET good == SelectSeq(response_items, LAMBDA it : Parsable(it))
        IN  /\ Len(rows) = Len(good)
            /\ \A i \in 1..Len(good) :
                  /\ rows[i].payout_ts = good[i].time.v
                  /\ rows[i].geod.nan = (good[i].reward.k = "nan")
                  /\ (~rows[i].geod.nan => rows[i].geod.v = good[i].reward.v)

\* C12: with no device, or when no collected record qualifies, the frame
\* returned by fetch_rewards_raw and both aggregates of it are empty, and
\* with no device the call returns without any fetch and without raising.
C12_EmptyInEmptyOut ==
    /\ (pc # "idle" /\ miner_sns = <<>>) =>
            (pc = "done" /\ error = "none" /\ calls = <<>>)
    /\ (pc = "done" /\ \A i \in 1..Len(rows) :
                            \/ rows[i].payout_ts < payout_start
                            \/ rows[i].payout_ts >= payout_end_excl) =>
            (raw = <<>> /\ agg = <<>> /\ daily = <<>> /\ error = "none")

C12_Witness ==
    /\ pc = "done"
    /\ miner_sns = <<>>
    /\ Len(ranges) = 2
    /\ raw = <<>> /\ agg = <<>> /\ daily = <<>>

\* a second case of C12: records were collected and none qualifies
C12_NoneQualifies ==
    /\ pc = "done"
    /\ Len(rows) = 2
    /\ raw = <<>> /\ agg = <<>> /\ daily = <<>>

\* milliseconds of a [hi, lo] pair are hi * 10^6 + lo; the pair stands for
\* exactly t epoch seconds
IsMsOfSeconds(ms, t) ==
    /\ ms.lo \in 0..999999
    /\ ms.lo % 1000 = 0
    /\ ms.hi * 1000 + (ms.lo \div 1000) = t

\* C13: a calculation in which no call fails has called the provider once
\* per (device, chunk) pair, devices in list order and for each device the
\* chunks in ascending order, each call carrying its device and the chunk's
\* start and end as UTC epoch milliseconds.
C13_OneCallPerDeviceChunk ==
    pc = "done" =>
        LET D == Len(miner_sns)
            C == Len(ranges)
        IN  /\ Len(calls) = D * C
            /\ \A c \in 1..(C - 1) : ranges[c][1] < ranges[c + 1][1]
            /\ \A d \in 1..D : \A c \in 1..C :
                  LET call == calls[(d - 1) * C + c]
                  IN  /\ call.minerSn = miner_sns[d]
                      /\ IsMsOfSeconds(call.startTime, ranges[c][1])
                      /\ IsMsOfSeconds(call.endTime, ranges[c][2])

C13_Witness ==
    /\ pc = "done"
    /\ Len(miner_sns) = 2
    /\ miner_sns[1] # miner_sns[2]
    /\ Len(ranges) = 2
    /\ Len(calls) = 4

\* the device list of the session holds sn
Listed(df, sn) == \E i \in 1..Len(df) : df[i] = sn

\* C14: after a successful calculation the result table has exactly one row
\* per device of the device list, in list order; a device without a
\* qualifying record is there with Toplam_GEOD = 0 and Odul_Sayisi = 0; a
\* row is Offline exactly when its Toplam_GEOD is below the low threshold
\* or its Odul_Sayisi is 0.
C14_OneResultRowPerDevice ==
    pc = "done" =>
        LET out == session_state.last_result_df.v
        IN  /\ session_state.last_result_df.has
            /\ Len(out) = Len(miner_sns)
            /\ \A i \in 1..Len(out) :
                  /\ out[i].Miner_SN = miner_sns[i]
                  /\ (\A j \in 1..Len(raw) : raw[j].Miner_SN # miner_sns[i]) =>
                         (out[i].Toplam_GEOD = 0 /\ out[i].Odul_Sayisi = 0)
                  /\ out[i].Offline <=>
                         (out[i].Toplam_GEOD < low_threshold \/ out[i].Odul_Sayisi = 0)

C14_Witness ==
    /\ pc = "done"
    /\ Len(miner_sns) = 2
    /\ Len(raw) = 1
    /\ LET out == session_state.last_result_df.v
       IN  /\ Len(out) = 2
           /\ out[1].Toplam_GEOD = low_threshold
           /\ out[1].Odul_Sayisi = 1
           /\ ~out[1].Offline
           /\ out[2].Toplam_GEOD = 0
           /\ out[2].Odul_Sayisi = 0
           /\ out[2].Offline

\* C15: a serial number added with "SN Ekle" is still in the session's
\* device list after every later run of the script that leaves the
\* uploader's file as it is, and a calculation started by such a run
\* queries it.
C15_ManualSnStays ==
    [][\A sn \in origin.manual :
          (up' = up) =>
              /\ Listed(session_state'.miner_df, sn)
              /\ (pc # "fetch" /\ pc' = "fetch") => Listed(miner_sns', sn)]_vars

\* C16: while a result is shown, the date range of the PDF's meta table and
\* of the prepared WhatsApp message is the range the stored result was
\* fetched for.
C16_ExportRangeIsFetchedRange ==
    (AtRest /\ session_state.last_result_df.has) =>
        /\ PdfMeta = origin.range
        /\ session_state.wa_msg.has => session_state.wa_msg.v = origin.range

\* the three stored frames are all absent, or all there, stored by the same
\* calculation and derived from the same raw frame
SessionFramesTogether ==
    LET s == session_state
    IN  \/ /\ ~s.last_result_df.has /\ ~s.last_raw_df.has /\ ~s.last_daily_df.has
           /\ origin.result = 0 /\ origin.raw = 0 /\ origin.daily = 0
        \/ /\ s.last_result_df.has /\ s.last_raw_df.has /\ s.last_daily_df.has
           /\ origin.result > 0
           /\ origin.raw = origin.result
           /\ origin.daily = origin.result
           /\ s.last_daily_df.v = daily_trend_from_raw(s.last_raw_df.v)
           /\ LET a == aggregates_from_raw(s.last_raw_df.v)
              IN  \A i \in 1..Len(a) : \A j \in 1..Len(s.last_result_df.v) :
                     s.last_result_df.v[j].Miner_SN = a[i].Miner_SN =>
                         s.last_result_df.v[j].Toplam_GEOD = a[i].Toplam_GEOD

\* C17: last_result_df, last_raw_df and last_daily_df are always all absent
\* or all from the same calculation, and a calculation that stops early or
\* whose fetch raises leaves the three as they were.
C17_SessionFramesFromOneCalc ==
    /\ []SessionFramesTogether
    /\ [][pc' \in {"stopped", "raised"} =>
             /\ session_state'.last_result_df = session_state.last_result_df
             /\ session_state'.last_raw_df = session_state.last_raw_df
             /\ session_state'.last_daily_df = session_state.last_daily_df]_vars

C17_Witness ==
    /\ pc = "raised"
    /\ ncalc = 2
    /\ origin.result = 1
    /\ session_state.last_result_df.has
    /\ session_state.last_raw_df.v # <<>>

\* a second case of C17: the second calculation stopped early
C17_StoppedKeepsFrames ==
    /\ pc = "stopped"
    /\ ncalc = 2
    /\ origin.result = 1
    /\ session_state.last_raw_df.has

====
